---- MODULE Spec2Model ----
(***************************************************************************)
(* Incremental booking pipeline (incremental_booking_data_processing.py):  *)
(* metadata-driven watermark, per-date validation, fact re-aggregation and *)
(* SCD Type 2 maintenance of the customer dimension.                       *)
(*                                                                         *)
(* Dates are the integers yyyymmdd, so integer order is calendar order.    *)
(* A formatted date ("%Y-%m-%d") is the triple <<yyyy, mm, dd>>.           *)
(* DataFrames read from files are sequences of rows; the Delta tables      *)
(* (fact, SCD) are bags of rows.                                           *)
(***************************************************************************)
EXTENDS Integers, Sequences, FiniteSets, Bags, TLC

\* ------------------------------------------------------------------------
\* Bounds of the model
\* ------------------------------------------------------------------------
\* number of calendar days for which raw files may have landed
MaxDate == 2
\* number of times the script is started (first run plus restarts)
MaxRuns == 2

\* ------------------------------------------------------------------------
\* Program constants
\* ------------------------------------------------------------------------
PIPELINE_NAME == "booking_customer_pipeline"
BOOKING_PREFIX == "bookings_"
CUSTOMER_PREFIX == "customers_"
\* DATE('1900-01-01'), the initial watermark
InitialDate == 19000101
\* '9999-12-31', valid_to of an open SCD row
OpenDate == 99991231
\* SQL NULL in a numeric column / in a string column
NULL == -999
NULL_STR == "<null>"

\* the calendar days of the model, across a month boundary
DayList == <<20240131, 20240201, 20240202, 20240203, 20240204>>
Dates == {DayList[i] : i \in 1..MaxDate}

\* ------------------------------------------------------------------------
\* Dates and their text form
\* ------------------------------------------------------------------------
\* date_obj.strftime("%Y-%m-%d")
Strftime(d) == <<d \div 10000, (d \div 100) % 100, d % 100>>

IsLeap(y) == (y % 4 = 0 /\ y % 100 # 0) \/ y % 400 = 0

DaysInMonth(y, m) ==
    IF m \in {4, 6, 9, 11} THEN 30
    ELSE IF m = 2 THEN (IF IsLeap(y) THEN 29 ELSE 28)
    ELSE 31

\* does datetime.strptime(token, "%Y-%m-%d") succeed
StrptimeOk(s) ==
    /\ s[1] \in 1..9999
    /\ s[2] \in 1..12
    /\ s[3] \in 1..DaysInMonth(s[1], s[2])

\* datetime.strptime(token, "%Y-%m-%d").date(), also DATE('...') and cast("date")
ToDate(s) == s[1] * 10000 + s[2] * 100 + s[3]

\* ------------------------------------------------------------------------
\* Generic helpers on sequences and bags
\* ------------------------------------------------------------------------
Range(s) == {s[i] : i \in DOMAIN s}

Column(s, c) == [i \in DOMAIN s |-> s[i][c]]

\* Spark sum(): NULLs are skipped, the sum of no non-NULL value is NULL
RECURSIVE SumNonNull(_)
SumNonNull(s) ==
    IF s = <<>> THEN NULL
    ELSE LET h == Head(s)
             r == SumNonNull(Tail(s))
         IN  IF h = NULL THEN r ELSE IF r = NULL THEN h ELSE h + r

\* sorted(list(set(...))) and sorted(list)
RECURSIVE SortedSeq(_)
SortedSeq(s) ==
    IF s = <<>> THEN <<>>
    ELSE LET i == CHOOSE k \in DOMAIN s : \A j \in DOMAIN s : s[k] <= s[j]
         IN  <<s[i]>> \o SortedSeq(SubSeq(s, 1, i - 1) \o SubSeq(s, i + 1, Len(s)))

RECURSIVE SetToSortedSeq(_)
SetToSortedSeq(S) ==
    IF S = {} THEN <<>>
    ELSE LET m == CHOOSE x \in S : \A y \in S : x <= y
         IN  <<m>> \o SetToSortedSeq(S \ {m})

RECURSIVE SeqToBag(_)
SeqToBag(s) ==
    IF s = <<>> THEN EmptyBag ELSE SetToBag({Head(s)}) (+) SeqToBag(Tail(s))

RECURSIVE BagToSeq(_)
BagToSeq(B) ==
    IF DOMAIN B = {} THEN <<>>
    ELSE LET r == CHOOSE x \in DOMAIN B : TRUE
         IN  <<r>> \o BagToSeq(B (-) SetToBag({r}))

RECURSIVE SumCounts(_, _)
SumCounts(B, S) ==
    IF S = {} THEN 0
    ELSE LET r == CHOOSE x \in S : TRUE
         IN  B[r] + SumCounts(B, S \ {r})

\* number of rows of bag B that satisfy the rows in set S
CountIn(B, S) == SumCounts(B, S \cap DOMAIN B)

\* the bag obtained by rewriting every row r of B to F[r]
MapBag(B, F) ==
    LET img == {F[r] : r \in DOMAIN B}
    IN  [n \in img |-> SumCounts(B, {r \in DOMAIN B : F[r] = n})]

\* ------------------------------------------------------------------------
\* Raw file names and directories
\* ------------------------------------------------------------------------
\* a file name is a prefix, a date token and the characters after the token
DotCsv == <<".", "c", "s", "v">>
BackslashDotCsv == <<"\\", ".", "c", "s", "v">>

FileName(prefix, token, suffix) ==
    [prefix |-> prefix, token |-> token, suffix |-> suffix]

\* f"{BOOKING_RAW_DIR}bookings_{date_str}.csv"
BookingPath(date_str) == FileName(BOOKING_PREFIX, date_str, DotCsv)
\* f"{CUSTOMER_RAW_DIR}customers_{date_str}.csv"
CustomerPath(date_str) == FileName(CUSTOMER_PREFIX, date_str, DotCsv)

\* the part of the patterns after the group: in the raw string, \\ is an
\* escaped backslash and the . that follows it is the any-character wildcard
SuffixMatches(suffix) ==
    /\ Len(suffix) >= 5
    /\ suffix[1] = "\\"
    /\ suffix[2] # "\n"
    /\ SubSeq(suffix, 3, 5) = <<"c", "s", "v">>

\* the group (\d{4}-\d{2}-\d{2})
TokenMatches(token) ==
    /\ Len(token) = 3
    /\ token[1] \in 0..9999
    /\ token[2] \in 0..99
    /\ token[3] \in 0..99

\* re.search(pattern, f.name): <<group 1>> on a match, <<>> for None
ReSearch(prefix, name) ==
    IF name.prefix = prefix /\ TokenMatches(name.token) /\ SuffixMatches(name.suffix)
    THEN <<name.token>>
    ELSE <<>>

\* list_raw_dates(spark, raw_dir, pattern) on the directory listing `names`
ListRawDates(names, prefix) ==
    LET matched == {n \in names : ReSearch(prefix, n) # <<>>}
        parsed  == {n \in matched : StrptimeOk(ReSearch(prefix, n)[1])}
    IN  SetToSortedSeq({ToDate(ReSearch(prefix, n)[1]) : n \in parsed})

\* variant: the watermark itself counts as pending (>= instead of >)
PendingDates_Inclusive(booking_dates, customer_dates, last_processed) ==
    SortedSeq(SelectSeq(booking_dates,
                        LAMBDA d : d \in Range(customer_dates) /\ d >= last_processed))

\* pending_dates = sorted([d for d in booking_dates if d in customer_dates and d > last_processed])
PendingDates(booking_dates, customer_dates, last_processed) ==
    SortedSeq(SelectSeq(booking_dates,
                        LAMBDA d : d \in Range(customer_dates) /\ d > last_processed))

\* ------------------------------------------------------------------------
\* Watermark store (pipeline_metadata)
\* ------------------------------------------------------------------------
PipelineRows(m) == SelectSeq(m, LAMBDA r : r.table_name = PIPELINE_NAME)

\* variant: the insert is made without the NOT EXISTS condition
InitMetadata_Always(m) ==
    Append(m, [table_name |-> PIPELINE_NAME, last_processed_date |-> InitialDate])

\* INSERT ... WHERE NOT EXISTS (...) of get_last_processed_date
InitMetadata(m) ==
    IF PipelineRows(m) = <<>>
    THEN Append(m, [table_name |-> PIPELINE_NAME, last_processed_date |-> InitialDate])
    ELSE m

\* the value get_last_processed_date returns: meta_df.collect()[0]
LastProcessedDate(m) == PipelineRows(m)[1].last_processed_date
\* variant: the UPDATE matches no row and the stored date stays
UpdateLastProcessedDate_Stale(m, new_date) == m

\* update_last_processed_date(spark, new_date): new_date is the formatted date
UpdateLastProcessedDate(m, new_date) ==
    [i \in DOMAIN m |->
        IF m[i].table_name = PIPELINE_NAME
        THEN [m[i] EXCEPT !.last_processed_date = ToDate(new_date)]
        ELSE m[i]]

\* ------------------------------------------------------------------------
\* Rows
\* ------------------------------------------------------------------------
BookingRow(id, cust, type, amount, discount, quantity) ==
    [booking_id |-> id, customer_id |-> cust, booking_type |-> type,
     amount |-> amount, discount |-> discount, quantity |-> quantity]

CustomerColumns ==
    {"customer_id", "customer_name", "customer_address", "phone_number", "email"}

CustomerRow(id, name, address, phone, email) ==
    [customer_id |-> id, customer_name |-> name, customer_address |-> address,
     phone_number |-> phone, email |-> email]

\* a customer DataFrame: its columns and its rows
DataFrame(columns, rows) == [columns |-> columns, rows |-> rows]

\* df.withColumn(c, lit(v)): adds the column, or replaces it when present
WithColumn(df, c, v) ==
    [columns |-> df.columns \cup {c},
     rows    |-> [i \in DOMAIN df.rows |->
                    [x \in df.columns \cup {c} |-> IF x = c THEN v ELSE df.rows[i][x]]]]

\* ------------------------------------------------------------------------
\* Data quality checks (PyDeequ)
\* ------------------------------------------------------------------------
IsUnique(rows, c) ==
    \A i, j \in DOMAIN rows : rows[i][c] = rows[j][c] => i = j

IsCompleteNum(rows, c) == \A i \in DOMAIN rows : rows[i][c] # NULL
IsCompleteStr(rows, c) == \A i \in DOMAIN rows : rows[i][c] # NULL_STR
IsNonNegative(rows, c) == \A i \in DOMAIN rows : rows[i][c] = NULL \/ rows[i][c] >= 0

\* check_booking: "Booking Data Check"
CheckBooking(rows) ==
    /\ Len(rows) > 0
    /\ IsUnique(rows, "booking_id")
    /\ IsCompleteNum(rows, "customer_id")
    /\ IsCompleteNum(rows, "amount")
    /\ IsNonNegative(rows, "amount")
    /\ IsNonNegative(rows, "quantity")
    /\ IsNonNegative(rows, "discount")

\* check_customer: "Customer Data Check"
CheckCustomer(rows) ==
    /\ Len(rows) > 0
    /\ IsUnique(rows, "customer_id")
    /\ IsCompleteStr(rows, "customer_name")
    /\ IsCompleteStr(rows, "customer_address")
    /\ IsCompleteStr(rows, "phone_number")
    /\ IsCompleteStr(rows, "email")

\* variant: the verdict of the check is ignored
RunPydeequChecks_IgnoreStatus(available, status) == TRUE

\* run_pydeequ_checks(spark, df, checks); status is the verdict of the check
RunPydeequChecks(available, status) ==
    IF ~available THEN TRUE ELSE status

\* ------------------------------------------------------------------------
\* Transformations and the per-date aggregate
\* ------------------------------------------------------------------------
NullOf(c) == IF c \in {"valid_from", "valid_to"} THEN NULL ELSE NULL_STR

\* the rows one booking row contributes to booking_df.join(customer_df, "customer_id", how="left")
JoinRow(b, customer_df) ==
    LET others == customer_df.columns \ {"customer_id"}
        m == SelectSeq(customer_df.rows,
                       LAMBDA c : b.customer_id # NULL /\ c.customer_id = b.customer_id)
    IN  IF m = <<>>
        THEN <<b @@ [x \in others |-> NullOf(x)]>>
        ELSE [i \in DOMAIN m |-> b @@ [x \in others |-> m[i][x]]]

RECURSIVE LeftJoin(_, _)
LeftJoin(booking_rows, customer_df) ==
    IF booking_rows = <<>> THEN <<>>
    ELSE JoinRow(Head(booking_rows), customer_df) \o LeftJoin(Tail(booking_rows), customer_df)

\* df_transformed: total_cost = amount - discount, then filter(quantity > 0)
\* (the ingestion_time column is not read again and is left out)
Transform(booking_rows, customer_df) ==
    LET joined == LeftJoin(booking_rows, customer_df)
        costed == [i \in DOMAIN joined |->
                     joined[i] @@ [total_cost |->
                        IF joined[i].amount = NULL \/ joined[i].discount = NULL
                        THEN NULL
                        ELSE joined[i].amount - joined[i].discount]]
    IN  SelectSeq(costed, LAMBDA r : r.quantity # NULL /\ r.quantity > 0)

\* rows.groupBy("booking_type", "customer_id").agg(sum(amountCol), sum(quantityCol))
GroupBySum(rows, amountCol, quantityCol) ==
    LET keys == {<<rows[i].booking_type, rows[i].customer_id>> : i \in DOMAIN rows}
        Of(k) == SelectSeq(rows, LAMBDA r : r.booking_type = k[1] /\ r.customer_id = k[2])
    IN  {[booking_type       |-> k[1],
          customer_id        |-> k[2],
          total_amount_sum   |-> SumNonNull(Column(Of(k), amountCol)),
          total_quantity_sum |-> SumNonNull(Column(Of(k), quantityCol))] : k \in keys}

\* df_agg of process_date
DfAgg(booking_rows, customer_df) ==
    GroupBySum(Transform(booking_rows, customer_df), "total_cost", "quantity")

\* df_final: union the stored fact table with df_agg and re-aggregate
DfFinal(factExists, existing_fact, df_agg) ==
    IF factExists
    THEN GroupBySum(BagToSeq(existing_fact) \o BagToSeq(SetToBag(df_agg)),
                    "total_amount_sum", "total_quantity_sum")
    ELSE df_agg

\* ------------------------------------------------------------------------
\* SCD Type 2
\* ------------------------------------------------------------------------
\* the defaults of valid_from and valid_to when the file has no such column
EnsureValidity(customer_df, date_str) ==
    LET a == IF "valid_from" \notin customer_df.columns
             THEN WithColumn(customer_df, "valid_from", ToDate(date_str))
             ELSE customer_df
    IN  IF "valid_to" \notin a.columns
        THEN WithColumn(a, "valid_to", ToDate(<<9999, 12, 31>>))
        ELSE a

\* variant: the condition does not ask for an open row
MergeCondition_AnyRow(r, u) == r.customer_id = u.customer_id

\* the merge condition: scd.customer_id = updates.customer_id AND scd.valid_to = '9999-12-31'
MergeCondition(r, u) ==
    r.customer_id = u.customer_id /\ r.valid_to = ToDate(<<9999, 12, 31>>)

Matching(r, updates) == {i \in DOMAIN updates : MergeCondition(r, updates[i])}

\* Delta rejects a merge in which several source rows match one target row
MergeIsAmbiguous(scd_rows, updates) ==
    \E r \in DOMAIN scd_rows : Cardinality(Matching(r, updates)) > 1

\* variant: the merge is built but changes no row
ScdMerge_NoClose(scd_rows, updates) == scd_rows

\* variant: the matched row takes the incoming valid_to instead of valid_from
ScdMerge_WrongColumn(scd_rows, updates) ==
    MapBag(scd_rows,
           [r \in DOMAIN scd_rows |->
              IF Matching(r, updates) = {} THEN r
              ELSE [r EXCEPT !.valid_to =
                       updates[CHOOSE i \in Matching(r, updates) : TRUE].valid_to]])

\* whenMatchedUpdate(set = {"valid_to": "updates.valid_from"})
ScdMerge(scd_rows, updates) ==
    MapBag(scd_rows,
           [r \in DOMAIN scd_rows |->
              IF Matching(r, updates) = {} THEN r
              ELSE [r EXCEPT !.valid_to =
                       updates[CHOOSE i \in Matching(r, updates) : TRUE].valid_from]])

\* customer_df.write.format("delta").mode("append")
ScdAppend(scd_rows, updates) == scd_rows (+) SeqToBag(updates)

\* ------------------------------------------------------------------------
\* Raw files that may have landed for one day
\* ------------------------------------------------------------------------
BookingFiles ==
    {<<BookingRow(1, 1, "A", 50, 5, 2)>>,
     <<BookingRow(1, 2, "B", -10, 0, 1)>>}

CustomerFiles ==
    {DataFrame(CustomerColumns, <<CustomerRow(1, "Ann", "a1", "p1", "e1")>>),
     DataFrame(CustomerColumns, <<CustomerRow(2, "Bob", "a2", "p2", "e2")>>),
     DataFrame(CustomerColumns, <<CustomerRow(1, "Ann", "a1", "p1", "e1"),
                                  CustomerRow(1, "Ann", "a9", "p1", "e1")>>),
     DataFrame(CustomerColumns \cup {"valid_from", "valid_to"},
               <<CustomerRow(1, "Ann", "a0", "p1", "e1")
                   @@ [valid_from |-> 20240110, valid_to |-> 20240120]>>)}

\* what landed for one day: the names under which each directory lists the
\* day's file, and the content of the files
DayInputs ==
    \* both files, under the name process_date reads and a name the patterns match
    {[bnames |-> {DotCsv, BackslashDotCsv}, cnames |-> {DotCsv, BackslashDotCsv},
      bookings |-> b, customers |-> c] : b \in BookingFiles, c \in CustomerFiles}
    \cup
    \* no customer file that day
    {[bnames |-> {DotCsv, BackslashDotCsv}, cnames |-> {},
      bookings |-> b, customers |-> c] :
        b \in {<<BookingRow(1, 1, "A", 50, 5, 2)>>},
        c \in {DataFrame(CustomerColumns, <<>>)}}
    \cup
    \* names the patterns match, but not the names process_date reads
    {[bnames |-> {BackslashDotCsv}, cnames |-> {BackslashDotCsv},
      bookings |-> b, customers |-> c] :
        b \in {<<BookingRow(1, 1, "A", 50, 5, 2)>>},
        c \in {DataFrame(CustomerColumns, <<>>)}}

\* a directory: file name -> file content
Directory(prefix, names, content) ==
    LET files == {FileName(prefix, Strftime(d), sfx) : d \in Dates, sfx \in {DotCsv, BackslashDotCsv}}
        present == {f \in files : f.suffix \in names[ToDate(f.token)]}
    IN  [f \in present |-> content[ToDate(f.token)]]

\* ------------------------------------------------------------------------
\* State
\* ------------------------------------------------------------------------
VARIABLES
    PYDEEQU_AVAILABLE,  \* did the pydeequ import succeed on this cluster
    booking_dir,        \* BOOKING_RAW_DIR: file name -> booking rows
    customer_dir,       \* CUSTOMER_RAW_DIR: file name -> customer DataFrame
    meta,               \* PIPELINE_METADATA_TABLE: sequence of rows
    fact_exists,        \* catalog.tableExists(FACT_TABLE)
    fact,               \* FACT_TABLE: bag of rows
    scd_exists,         \* catalog.tableExists(SCD_TABLE)
    scd,                \* SCD_TABLE: bag of rows
    pc,                 \* position of the script
    pending,            \* the dates of pending_dates not yet completed in this run
    runs,               \* number of times the script has been started
    error,              \* the exception raised in this run, "none" if none
    failure,            \* history: the first date that raised in this run
    before,             \* history: the stores when process_date was entered
    clean,              \* history: the stores after the last watermark update
    completed,          \* history: the dates whose watermark update was made
    plan,               \* history: pending_dates as computed at the start of this run
    printed             \* what the data quality step of the last process_date call printed

vars == <<PYDEEQU_AVAILABLE, booking_dir, customer_dir, meta, fact_exists, fact,
          scd_exists, scd, pc, pending, runs, error, failure, before, clean, completed,
          plan, printed>>

env == <<PYDEEQU_AVAILABLE, booking_dir, customer_dir>>

Stores ==
    [meta |-> meta, fact_exists |-> fact_exists, fact |-> fact,
     scd_exists |-> scd_exists, scd |-> scd]

NoFailure == [date |-> 0, watermark |-> 0]

\* the date the loop is at
dt == Head(pending)

Init ==
    /\ PYDEEQU_AVAILABLE \in BOOLEAN
    /\ \E day \in [Dates -> DayInputs] :
         /\ booking_dir = Directory(BOOKING_PREFIX, [d \in Dates |-> day[d].bnames],
                                    [d \in Dates |-> day[d].bookings])
         /\ customer_dir = Directory(CUSTOMER_PREFIX, [d \in Dates |-> day[d].cnames],
                                     [d \in Dates |-> day[d].customers])
    /\ meta = <<>>
    /\ fact_exists = FALSE
    /\ fact = EmptyBag
    /\ scd_exists = FALSE
    /\ scd = EmptyBag
    /\ pc = "main"
    /\ pending = <<>>
    /\ runs = 1
    /\ error = "none"
    /\ failure = NoFailure
    /\ before = Stores
    /\ clean = Stores
    /\ completed = <<>>
    /\ plan = <<>>
    /\ printed = <<>>

\* ------------------------------------------------------------------------
\* The script
\* ------------------------------------------------------------------------
\* variant: no pending date is reported as a failure of the run
AfterDiscovery_Fail(p) == IF p = <<>> THEN "raised" ELSE "process_date"

\* if not pending_dates: sys.exit(0), else the loop starts
AfterDiscovery(p) == IF p = <<>> THEN "exit0" ELSE "process_date"

\* __main__ up to the loop: read the watermark, list both directories,
\* compute pending_dates, exit(0) when there is none
Main ==
    /\ pc = "main"
    /\ LET m == InitMetadata(meta)
           booking_dates  == ListRawDates(DOMAIN booking_dir, BOOKING_PREFIX)
           customer_dates == ListRawDates(DOMAIN customer_dir, CUSTOMER_PREFIX)
           p == PendingDates(booking_dates, customer_dates, LastProcessedDate(m))
       IN  /\ meta' = m
           /\ pending' = p
           /\ plan' = p
           /\ pc' = AfterDiscovery(p)
    /\ UNCHANGED <<env, fact_exists, fact, scd_exists, scd, runs, error, failure,
                   before, clean, completed, printed>>

\* variant: the handler swallows the exception and the loop goes on
ExceptHandler_Continue(p) ==
    [pc |-> IF Tail(p) = <<>> THEN "finished" ELSE "process_date", pending |-> Tail(p)]

\* except Exception: print; raise -- the run ends, the rest of pending_dates is left
ExceptHandler(p) == [pc |-> "raised", pending |-> p]

\* process_date or update_last_processed_date raises e while the loop is at dt
Raise(e, watermark) ==
    /\ error' = e
    /\ failure' = IF failure = NoFailure
                  THEN [date |-> dt, watermark |-> watermark]
                  ELSE failure
    /\ pc' = ExceptHandler(pending).pc
    /\ pending' = ExceptHandler(pending).pending

\* the messages of the data quality step
SkipMessage == "Skipping pydeequ checks - ensure data quality before pushing to production."
FailedMessage == "Data quality checks failed. See details below."

\* variant: the branch without PyDeequ prints nothing
DqMessages_Silent(available, booking_ok, customer_ok) ==
    IF ~available THEN <<>>
    ELSE IF ~booking_ok THEN <<FailedMessage>>
    ELSE IF ~customer_ok THEN <<FailedMessage>>
    ELSE <<>>

\* what step 2 of process_date prints: the else branch prints the skip message,
\* run_pydeequ_checks prints when a check fails (the customer check runs only
\* after the booking check passed)
DqMessages(available, booking_ok, customer_ok) ==
    IF ~available THEN <<SkipMessage>>
    ELSE IF ~booking_ok THEN <<FailedMessage>>
    ELSE IF ~customer_ok THEN <<FailedMessage>>
    ELSE <<>>

\* process_date, steps 1 and 2: read both files, run the data quality checks
ProcessDate_Validate ==
    /\ pc = "process_date"
    /\ before' = Stores
    /\ LET date_str == Strftime(dt)
           booking_path == BookingPath(date_str)
           customer_path == CustomerPath(date_str)
       IN  IF booking_path \notin DOMAIN booking_dir \/ customer_path \notin DOMAIN customer_dir
           THEN /\ Raise("path_not_found", LastProcessedDate(meta))
                /\ printed' = <<>>
           ELSE LET booking_df == booking_dir[booking_path]
                    customer_df == customer_dir[customer_path]
                IN  /\ printed' = DqMessages(PYDEEQU_AVAILABLE, CheckBooking(booking_df),
                                             CheckCustomer(customer_df.rows))
                    /\ IF PYDEEQU_AVAILABLE
                          /\ ~RunPydeequChecks(PYDEEQU_AVAILABLE, CheckBooking(booking_df))
                       THEN Raise("booking_dq", LastProcessedDate(meta))
                       ELSE IF PYDEEQU_AVAILABLE
                               /\ ~RunPydeequChecks(PYDEEQU_AVAILABLE,
                                                    CheckCustomer(customer_df.rows))
                       THEN Raise("customer_dq", LastProcessedDate(meta))
                       ELSE /\ pc' = "fact"
                            /\ UNCHANGED <<pending, error, failure>>
    /\ UNCHANGED <<env, meta, fact_exists, fact, scd_exists, scd, runs, clean, completed, plan>>

\* process_date, steps 3 to 5: transform, aggregate, overwrite the fact table
ProcessDate_Fact ==
    /\ pc = "fact"
    /\ LET date_str == Strftime(dt)
           booking_df == booking_dir[BookingPath(date_str)]
           customer_df == customer_dir[CustomerPath(date_str)]
           df_agg == DfAgg(booking_df, customer_df)
       IN  fact' = SetToBag(DfFinal(fact_exists, fact, df_agg))
    /\ fact_exists' = TRUE
    /\ pc' = "scd"
    /\ UNCHANGED <<env, meta, scd_exists, scd, pending, runs, error, failure,
                   before, clean, completed, plan, printed>>

\* process_date, step 6: close the open rows of the incoming customers
\* (or create the SCD table when there is none)
ProcessDate_ScdMerge ==
    /\ pc = "scd"
    /\ LET date_str == Strftime(dt)
           customer_df == EnsureValidity(customer_dir[CustomerPath(date_str)], date_str)
       IN  IF scd_exists
           THEN IF MergeIsAmbiguous(scd, customer_df.rows)
                THEN /\ Raise("merge_ambiguous", LastProcessedDate(before.meta))
                     /\ UNCHANGED <<scd, scd_exists>>
                ELSE /\ scd' = ScdMerge(scd, customer_df.rows)
                     /\ pc' = "append"
                     /\ UNCHANGED <<scd_exists, pending, error, failure>>
           ELSE /\ scd' = SeqToBag(customer_df.rows)
                /\ scd_exists' = TRUE
                /\ pc' = "update"
                /\ UNCHANGED <<pending, error, failure>>
    /\ UNCHANGED <<env, meta, fact_exists, fact, runs, before, clean, completed,
                   plan, printed>>

\* process_date, step 6: append the incoming rows as the new versions
ProcessDate_ScdAppend ==
    /\ pc = "append"
    /\ LET date_str == Strftime(dt)
           customer_df == EnsureValidity(customer_dir[CustomerPath(date_str)], date_str)
       IN  scd' = ScdAppend(scd, customer_df.rows)
    /\ pc' = "update"
    /\ UNCHANGED <<env, meta, fact_exists, fact, scd_exists, pending, runs, error,
                   failure, before, clean, completed, plan, printed>>

\* update_last_processed_date(spark, dt.strftime("%Y-%m-%d")), then the next date
UpdateWatermark ==
    /\ pc = "update"
    /\ meta' = UpdateLastProcessedDate(meta, Strftime(dt))
    /\ pending' = Tail(pending)
    /\ pc' = IF Tail(pending) = <<>> THEN "finished" ELSE "process_date"
    /\ clean' = [Stores EXCEPT !.meta = meta']
    /\ completed' = Append(completed, dt)
    /\ UNCHANGED <<env, fact_exists, fact, scd_exists, scd, runs, error, failure, before,
                   plan, printed>>

\* a write to a store fails (store unavailable): the write has no effect and
\* the exception reaches the handler of the loop
WriteFailure ==
    /\ pc \in {"fact", "scd", "append", "update"}
    /\ Raise("write_failed", LastProcessedDate(before.meta))
    /\ UNCHANGED <<env, meta, fact_exists, fact, scd_exists, scd, runs, before,
                   clean, completed, plan, printed>>

\* the script is started again after it ended
Restart ==
    /\ pc \in {"exit0", "raised", "finished"}
    /\ runs < MaxRuns
    /\ runs' = runs + 1
    /\ pc' = "main"
    /\ pending' = <<>>
    /\ error' = "none"
    /\ failure' = NoFailure
    /\ plan' = <<>>
    /\ printed' = <<>>
    /\ UNCHANGED <<env, meta, fact_exists, fact, scd_exists, scd, before, clean, completed>>

Next ==
    \/ Main
    \/ ProcessDate_Validate
    \/ ProcessDate_Fact
    \/ ProcessDate_ScdMerge
    \/ ProcessDate_ScdAppend
    \/ UpdateWatermark
    \/ WriteFailure
    \/ Restart

Spec == Init /\ [][Next]_vars

\* ------------------------------------------------------------------------
\* Vocabulary of the properties
\* ------------------------------------------------------------------------
RunOver == pc \in {"exit0", "raised", "finished"}

\* the files process_date reads for date d
BookingFileOf(d) == booking_dir[BookingPath(Strftime(d))]
CustomerFileOf(d) == customer_dir[CustomerPath(Strftime(d))]
IncomingOf(d) == EnsureValidity(CustomerFileOf(d), Strftime(d)).rows

\* pending_dates as the next start of the script would compute it
NextPending ==
    PendingDates(ListRawDates(DOMAIN booking_dir, BOOKING_PREFIX),
                 ListRawDates(DOMAIN customer_dir, CUSTOMER_PREFIX),
                 LastProcessedDate(InitMetadata(meta)))

CustomerIds(B) == {r.customer_id : r \in DOMAIN B}
RowsOf(B, c) == CountIn(B, {r \in DOMAIN B : r.customer_id = c})
OpenRowsOf(B, c) == CountIn(B, {r \in DOMAIN B : r.customer_id = c /\ r.valid_to = OpenDate})

\* the table one pass of steps 3 to 5 for date d leaves, starting from stores s
FactOnce(s, d) ==
    SetToBag(DfFinal(s.fact_exists, s.fact, DfAgg(BookingFileOf(d), CustomerFileOf(d))))

\* the table one pass of step 6 for date d leaves, starting from stores s
ScdOnce(s, d) ==
    IF s.scd_exists
    THEN ScdAppend(ScdMerge(s.scd, IncomingOf(d)), IncomingOf(d))
    ELSE SeqToBag(IncomingOf(d))

RECURSIVE Deltas(_)
Deltas(ds) ==
    IF ds = <<>> THEN <<>>
    ELSE BagToSeq(SetToBag(DfAgg(BookingFileOf(Head(ds)), CustomerFileOf(Head(ds)))))
         \o Deltas(Tail(ds))

\* per key, the sum of the per-date aggregates of the dates ds
SumOfDeltas(ds) ==
    SetToBag(GroupBySum(Deltas(ds), "total_amount_sum", "total_quantity_sum"))

FactKeysUnique ==
    \A r1, r2 \in DOMAIN fact :
        (r1.booking_type = r2.booking_type /\ r1.customer_id = r2.customer_id) => r1 = r2

\* ------------------------------------------------------------------------
\* C1
\* ------------------------------------------------------------------------
\* C1: the stored watermark is always the last date whose processing and
\* watermark update completed (1900-01-01 when there is none), and once a
\* date d has raised in a run the stored watermark is the one read before d
\* was started and the next start of the script has d as its first pending
\* date.
C1_WatermarkOnlyAfterSuccess ==
    /\ meta # <<>> =>
         LastProcessedDate(meta) =
            IF completed = <<>> THEN InitialDate ELSE completed[Len(completed)]
    /\ failure # NoFailure =>
         /\ LastProcessedDate(meta) = failure.watermark
         /\ NextPending # <<>>
         /\ Head(NextPending) = failure.date

\* a run aborted by a failed write after the fact table was overwritten, with
\* an earlier date already committed
C1_Witness ==
    /\ pc = "raised"
    /\ error = "write_failed"
    /\ failure.date = dt
    /\ fact # before.fact
    /\ completed # <<>>

\* ------------------------------------------------------------------------
\* C2
\* ------------------------------------------------------------------------
\* C2: when process_date has completed for date d, whatever aborted attempts
\* at d came before, the fact table is the table that one pass over d leaves
\* when started from the stores of the last watermark update.
C2_FactReprocessIdempotent ==
    pc = "update" => fact = FactOnce(clean, dt)

\* ------------------------------------------------------------------------
\* C3
\* ------------------------------------------------------------------------
\* C3: when process_date has completed for date d, whatever aborted attempts
\* at d came before, the dimension table is the table that one close-and-append
\* of d's customer batch leaves when started from the stores of the last
\* watermark update.
C3_ScdReprocessIdempotent ==
    pc = "update" => scd = ScdOnce(clean, dt)

\* ------------------------------------------------------------------------
\* C4
\* ------------------------------------------------------------------------
\* C4: whenever no date is being processed, the fact table has at most one
\* row per (booking_type, customer_id) and its rows are the per-key sums of
\* the per-date aggregates of exactly the dates whose watermark update was
\* made.
C4_FactIsSumOfCompleted ==
    (pc = "main" \/ RunOver) =>
        /\ FactKeysUnique
        /\ fact = SumOfDeltas(completed)

\* ------------------------------------------------------------------------
\* C5
\* ------------------------------------------------------------------------
\* C5: when every customer file holds each customer_id at most once, the
\* dimension table never holds two rows of one customer with
\* valid_to = 9999-12-31.
C5_AtMostOneOpenRow ==
    (\A f \in DOMAIN customer_dir : IsUnique(customer_dir[f].rows, "customer_id")) =>
        \A c \in CustomerIds(scd) : OpenRowsOf(scd, c) <= 1

\* a customer with a closed and an open version, after a date was processed a
\* second time in a restarted run
C5_Witness ==
    /\ \A f \in DOMAIN customer_dir : IsUnique(customer_dir[f].rows, "customer_id")
    /\ runs = 2
    /\ pc = "update"
    /\ \E c \in CustomerIds(scd) : OpenRowsOf(scd, c) = 1 /\ RowsOf(scd, c) >= 3

\* ------------------------------------------------------------------------
\* C6
\* ------------------------------------------------------------------------
\* C6: with the validation engine available, the steps that write are reached
\* only for a date whose booking rows and customer rows pass their checks, and
\* when a check has raised, the fact table, the dimension table and the
\* metadata table are those of the moment process_date was entered.
C6_ValidationGating ==
    /\ (PYDEEQU_AVAILABLE /\ pc \in {"fact", "scd", "append", "update"}) =>
          /\ CheckBooking(BookingFileOf(dt))
          /\ CheckCustomer(CustomerFileOf(dt).rows)
    /\ error \in {"booking_dq", "customer_dq"} =>
          /\ pc = "raised"
          /\ Stores = before

\* the checks of a second date raise after a first date was committed
C6_Witness ==
    /\ PYDEEQU_AVAILABLE
    /\ error \in {"booking_dq", "customer_dq"}
    /\ fact_exists /\ scd_exists
    /\ completed # <<>>
    /\ ~(CheckBooking(BookingFileOf(dt)) /\ CheckCustomer(CustomerFileOf(dt).rows))

\* ------------------------------------------------------------------------
\* C7
\* ------------------------------------------------------------------------
\* C7: every watermark update is made with a date strictly greater than the
\* stored watermark, reading the watermark after it returns that date, and no
\* step decreases the stored watermark.
C7_WatermarkMonotonic ==
    [][/\ (pc = "update" /\ pc' \in {"process_date", "finished"}) =>
            /\ dt > LastProcessedDate(meta)
            /\ LastProcessedDate(meta') = dt
       /\ meta # <<>> =>
            /\ meta' # <<>>
            /\ LastProcessedDate(meta') >= LastProcessedDate(meta)]_vars

\* the watermark was advanced in two different runs
C7_Witness ==
    /\ runs = 2
    /\ Len(completed) = 2
    /\ clean.meta = meta
    /\ LastProcessedDate(meta) = completed[2]
    /\ completed[2] > completed[1]
    /\ pc = "finished"

\* ------------------------------------------------------------------------
\* C8
\* ------------------------------------------------------------------------
\* C8: once a date has raised, the run is over: no store changes and the
\* script takes no step other than being started again.
C8_FailFast ==
    [][error # "none" =>
          /\ pc = "raised"
          /\ Stores' = Stores
          /\ pc' = "main"
          /\ runs' = runs + 1]_vars

\* a date raised while a later date was still pending
C8_Witness ==
    /\ pc = "raised"
    /\ error # "none"
    /\ Len(pending) >= 2
    /\ failure.date = pending[1]

\* ------------------------------------------------------------------------
\* C9
\* ------------------------------------------------------------------------
\* C9: when process_date has completed for a date whose customer file holds a
\* customer_id twice, the dimension table has gained at most one row for that
\* customer_id and holds at most one open row for it.
C9_DuplicateNotAppliedTwice ==
    pc = "update" =>
        \A c \in {u.customer_id : u \in Range(IncomingOf(dt))} :
            Cardinality({i \in DOMAIN IncomingOf(dt) : IncomingOf(dt)[i].customer_id = c}) > 1 =>
                /\ RowsOf(scd, c) <= RowsOf(before.scd, c) + 1
                /\ OpenRowsOf(scd, c) <= 1

\* ------------------------------------------------------------------------
\* C10
\* ------------------------------------------------------------------------
\* the SCD step of date dt has run against an existing dimension table
AfterScdStep == pc = "update" /\ before.scd_exists

WasOpen(c) == {r \in DOMAIN before.scd : r.customer_id = c /\ r.valid_to = OpenDate}

\* what C10 says of the incoming row u
Closure(u) ==
    IF WasOpen(u.customer_id) # {}
    THEN /\ \A r \in WasOpen(u.customer_id) :
              CopiesIn([r EXCEPT !.valid_to = u.valid_from], scd) >= CopiesIn(r, before.scd)
         /\ OpenRowsOf(scd, u.customer_id) = 1
         /\ \A r \in DOMAIN scd :
              (r.customer_id = u.customer_id /\ r.valid_to = OpenDate) =>
                  (r = u /\ r.valid_from = u.valid_from)
    ELSE CopiesIn(u, scd) > CopiesIn(u, before.scd)

\* C10 as stated: after the SCD step against an existing dimension table, for
\* every incoming row (c, f): if c had an open row, that row now has
\* valid_to = f and the one open row of c is the appended row with
\* valid_from = f; otherwise the incoming row was added.
C10_IntervalClosure_Original ==
    AfterScdStep => \A u \in Range(IncomingOf(dt)) : Closure(u)

\* C10 as amended: the same, for the incoming rows whose valid_to is
\* 9999-12-31 (the default when the customer file has no valid_to column).
C10_IntervalClosure ==
    AfterScdStep =>
        \A u \in Range(IncomingOf(dt)) : u.valid_to = OpenDate => Closure(u)

\* an open row of a customer was closed at the incoming valid_from and the
\* incoming row is the customer's open row
C10_Witness ==
    /\ AfterScdStep
    /\ \E u \in Range(IncomingOf(dt)) :
          /\ u.valid_to = OpenDate
          /\ WasOpen(u.customer_id) # {}
          /\ \E r \in WasOpen(u.customer_id) :
                /\ r.valid_from < u.valid_from
                /\ CopiesIn([r EXCEPT !.valid_to = u.valid_from], scd) = 1
          /\ CopiesIn(u, scd) = 1

\* ------------------------------------------------------------------------
\* C11
\* ------------------------------------------------------------------------
\* the customers of the batch the SCD step is applying, none outside that step
IncomingCustomers ==
    IF pc \in {"scd", "append"}
    THEN {u.customer_id : u \in Range(IncomingOf(dt))}
    ELSE {}

\* the same row but for valid_to
SameVersion(r, q) == [r EXCEPT !.valid_to = 0] = [q EXCEPT !.valid_to = 0]

VersionsOf(B, r) == CountIn(B, {q \in DOMAIN B : SameVersion(r, q)})

\* C11: in every step, every dimension row is still there with its valid_from
\* and attributes (only valid_to may differ), every row that was closed is
\* there as it was, and the rows of customers that are not in the incoming
\* batch are exactly the rows they were.
C11_HistoryUntouched ==
    [][/\ \A r \in DOMAIN scd :
            /\ VersionsOf(scd', r) >= VersionsOf(scd, r)
            /\ r.valid_to # OpenDate => CopiesIn(r, scd') >= CopiesIn(r, scd)
       /\ \A r \in DOMAIN scd \cup DOMAIN scd' :
            (r.customer_id \in CustomerIds(scd) /\ r.customer_id \notin IncomingCustomers)
                => CopiesIn(r, scd') = CopiesIn(r, scd)]_vars

\* the SCD step closed the open row of an incoming customer that also had a
\* closed row, and the closed row is there as it was
C11_Witness ==
    /\ AfterScdStep
    /\ \E c \in {u.customer_id : u \in Range(IncomingOf(dt))} :
          /\ \E r \in DOMAIN before.scd :
                /\ r.customer_id = c /\ r.valid_to # OpenDate
                /\ CopiesIn(r, scd) >= CopiesIn(r, before.scd)
          /\ \E r \in WasOpen(c) : CopiesIn(r, scd) < CopiesIn(r, before.scd)
          /\ RowsOf(scd, c) > RowsOf(before.scd, c)

\* ------------------------------------------------------------------------
\* C12
\* ------------------------------------------------------------------------
\* the rows of customer c in bag B
VersionsOfCustomer(B, c) == [r \in {q \in DOMAIN B : q.customer_id = c} |-> B[r]]

\* the rows of bag B ordered by valid_from (rows of equal valid_from by valid_to)
RECURSIVE ByValidFrom(_)
ByValidFrom(B) ==
    IF DOMAIN B = {} THEN <<>>
    ELSE LET r == CHOOSE x \in DOMAIN B : \A y \in DOMAIN B :
                      \/ x.valid_from < y.valid_from
                      \/ (x.valid_from = y.valid_from /\ x.valid_to <= y.valid_to)
         IN  <<r>> \o ByValidFrom(B (-) SetToBag({r}))

Contiguous(s) ==
    /\ \A i \in 1..(Len(s) - 1) : s[i].valid_to = s[i + 1].valid_from
    /\ s[Len(s)].valid_to = OpenDate

\* C12: in every reachable state, for each customer_id, its dimension rows
\* ordered by valid_from form a chain: each row's valid_to is the valid_from
\* of the next row and the last row is open.
C12_IntervalsContiguous ==
    \A c \in CustomerIds(scd) : Contiguous(ByValidFrom(VersionsOfCustomer(scd, c)))

\* ------------------------------------------------------------------------
\* C13
\* ------------------------------------------------------------------------
\* get_last_processed_date has just been called in this run
JustRead == pc = "exit0" \/ (pc = "process_date" /\ pending = plan)

\* C13: the metadata table never holds more than one row for the pipeline and
\* holds exactly one once get_last_processed_date was called; the call on the
\* empty store leaves the date 1900-01-01, and a call on a store that was
\* updated leaves the table as the last update left it.
C13_InitIdempotent ==
    /\ Len(PipelineRows(meta)) <= 1
    /\ (pc # "main" \/ runs > 1) => Len(PipelineRows(meta)) = 1
    /\ JustRead =>
          IF clean.meta = <<>>
          THEN LastProcessedDate(meta) = InitialDate
          ELSE meta = clean.meta

\* the second run has read a watermark that the first run had advanced
C13_Witness ==
    /\ runs = 2
    /\ pc = "process_date" /\ pending = plan
    /\ clean.meta # <<>>
    /\ Len(PipelineRows(meta)) = 1
    /\ LastProcessedDate(meta) = completed[Len(completed)]
    /\ LastProcessedDate(meta) # InitialDate

\* ------------------------------------------------------------------------
\* C14
\* ------------------------------------------------------------------------
\* C14: without the validation engine, run_pydeequ_checks answers true whatever
\* the verdict of the check would be, no date raises a data quality error, and
\* every date that reaches the writes has printed the skip message.
C14_DegradedPassThrough ==
    ~PYDEEQU_AVAILABLE =>
        /\ \A status \in BOOLEAN : RunPydeequChecks(PYDEEQU_AVAILABLE, status)
        /\ error \notin {"booking_dq", "customer_dq"}
        /\ pc \in {"fact", "scd", "append", "update"} => printed = <<SkipMessage>>

\* a batch that the checks would reject has reached the fact write, with the
\* skip message printed
C14_Witness ==
    /\ ~PYDEEQU_AVAILABLE
    /\ pc = "fact"
    /\ ~CheckBooking(BookingFileOf(dt))
    /\ ~CheckCustomer(CustomerFileOf(dt).rows)
    /\ printed = <<SkipMessage>>

\* ------------------------------------------------------------------------
\* C15
\* ------------------------------------------------------------------------
\* C15: a start of the script that finds no pending date goes straight to
\* exit(0): the fact table and the dimension table are unchanged, the stored
\* watermark is unchanged (an empty metadata store gets its 1900-01-01 row,
\* the value every read of it returns), and after the exit nothing happens
\* but a new start.
C15_Quiescence ==
    [][/\ (pc = "main" /\ NextPending = <<>>) =>
            /\ pc' = "exit0"
            /\ pending' = <<>>
            /\ <<fact_exists, fact, scd_exists, scd>>' = <<fact_exists, fact, scd_exists, scd>>
            /\ IF meta = <<>>
               THEN LastProcessedDate(meta') = InitialDate
               ELSE meta' = meta
       /\ pc = "exit0" => (pc' = "main" /\ Stores' = Stores)]_vars

\* the script exited with code 0 because the customer directory lists no date
\* while the booking directory does
C15_Witness ==
    /\ pc = "exit0"
    /\ error = "none"
    /\ ListRawDates(DOMAIN customer_dir, CUSTOMER_PREFIX) = <<>>
    /\ ListRawDates(DOMAIN booking_dir, BOOKING_PREFIX) # <<>>
    /\ ~fact_exists /\ ~scd_exists
    /\ LastProcessedDate(meta) = InitialDate

\* ------------------------------------------------------------------------
\* Date discovery on arbitrary directory listings
\* ------------------------------------------------------------------------
DiscoveryDates == {DayList[i] : i \in 1..(MaxDate + 2)}

\* a date token of the right shape that is no calendar date
BadToken == <<2024, 2, 30>>

\* the entries a directory may list: for every date a name the patterns
\* match, for the first date also the name process_date reads, and a name
\* whose token is no date
ListedNames(prefix) ==
    {FileName(prefix, Strftime(d), BackslashDotCsv) : d \in DiscoveryDates}
    \cup {FileName(prefix, Strftime(DayList[1]), DotCsv),
          FileName(prefix, BadToken, BackslashDotCsv)}

InitDiscovery ==
    /\ PYDEEQU_AVAILABLE = FALSE
    /\ \E names \in SUBSET ListedNames(BOOKING_PREFIX) :
          booking_dir = [f \in names |-> <<>>]
    /\ \E names \in SUBSET ListedNames(CUSTOMER_PREFIX) :
          customer_dir = [f \in names |-> DataFrame(CustomerColumns, <<>>)]
    /\ \E w \in DiscoveryDates \cup {InitialDate} :
          meta = IF w = InitialDate
                 THEN <<>>
                 ELSE <<[table_name |-> PIPELINE_NAME, last_processed_date |-> w]>>
    /\ fact_exists = FALSE
    /\ fact = EmptyBag
    /\ scd_exists = FALSE
    /\ scd = EmptyBag
    /\ pc = "main"
    /\ pending = <<>>
    /\ runs = 1
    /\ error = "none"
    /\ failure = NoFailure
    /\ before = Stores
    /\ clean = Stores
    /\ completed = <<>>
    /\ plan = <<>>
    /\ printed = <<>>

\* only the discovery part of the script
NextDiscovery == Main

SpecDiscovery == InitDiscovery /\ [][NextDiscovery]_vars

\* ------------------------------------------------------------------------
\* C16
\* ------------------------------------------------------------------------
BookingDates == Range(ListRawDates(DOMAIN booking_dir, BOOKING_PREFIX))
CustomerDates == Range(ListRawDates(DOMAIN customer_dir, CUSTOMER_PREFIX))

\* C16: the pending dates computed at the start are, in strictly ascending
\* order, exactly the dates listed for both directories that are greater than
\* the watermark.
C16_PendingSet ==
    pc # "main" =>
        /\ Range(plan) = {d \in BookingDates \cap CustomerDates : d > LastProcessedDate(meta)}
        /\ \A i, j \in DOMAIN plan : i < j => plan[i] < plan[j]
        /\ pending = plan

\* booking dates {1,2,3}, customer dates {2,3,4}, watermark 1: pending is <<2,3>>
C16_Witness ==
    /\ pc = "process_date"
    /\ BookingDates = {DayList[1], DayList[2], DayList[3]}
    /\ CustomerDates = {DayList[2], DayList[3], DayList[4]}
    /\ LastProcessedDate(meta) = DayList[1]
    /\ plan = <<DayList[2], DayList[3]>>

\* ------------------------------------------------------------------------
\* C17
\* ------------------------------------------------------------------------
\* C17: every entry bookings_<d>.csv (customers_<d>.csv) with d a calendar
\* date puts d among the discovered booking (customer) dates, and the
\* discovered dates are only dates of listed entries.
C17_DiscoveryFollowsNaming ==
    /\ \A f \in DOMAIN booking_dir :
          (StrptimeOk(f.token) /\ f = BookingPath(f.token)) => ToDate(f.token) \in BookingDates
    /\ \A f \in DOMAIN customer_dir :
          (StrptimeOk(f.token) /\ f = CustomerPath(f.token)) => ToDate(f.token) \in CustomerDates
    /\ BookingDates \subseteq {ToDate(f.token) : f \in {g \in DOMAIN booking_dir : StrptimeOk(g.token)}}
    /\ CustomerDates \subseteq {ToDate(f.token) : f \in {g \in DOMAIN customer_dir : StrptimeOk(g.token)}}

\* ------------------------------------------------------------------------
\* C18
\* ------------------------------------------------------------------------
\* the per-date delta taken from the booking rows alone: per
\* (booking_type, customer_id), the sums over the rows with quantity > 0
DeltaOfBookings(booking_rows) ==
    LET kept == SelectSeq(booking_rows, LAMBDA r : r.quantity # NULL /\ r.quantity > 0)
        keys == {<<kept[i].booking_type, kept[i].customer_id>> : i \in DOMAIN kept}
        Of(k) == SelectSeq(kept, LAMBDA r : r.booking_type = k[1] /\ r.customer_id = k[2])
        Cost(r) == IF r.amount = NULL \/ r.discount = NULL THEN NULL ELSE r.amount - r.discount
    IN  {[booking_type       |-> k[1],
          customer_id        |-> k[2],
          total_amount_sum   |-> SumNonNull([i \in DOMAIN Of(k) |-> Cost(Of(k)[i])]),
          total_quantity_sum |-> SumNonNull(Column(Of(k), "quantity"))] : k \in keys}

\* C18: the aggregate a date contributes to the fact merge has, per
\* (booking_type, customer_id), the sum of amount - discount and the sum of
\* quantity over exactly that date's booking rows with quantity > 0, whatever
\* the customer file holds.
C18_PerDateDelta ==
    pc = "fact" => DfAgg(BookingFileOf(dt), CustomerFileOf(dt)) = DeltaOfBookings(BookingFileOf(dt))

\* ------------------------------------------------------------------------
\* C19
\* ------------------------------------------------------------------------
\* the statements the script can be at, and the ways it ends
Positions ==
    {"main", "process_date", "fact", "scd", "append", "update", "exit0", "raised", "finished"}

\* the script, not yet at its end, leaves the statement it is at (every step of
\* Next taken there does, the raising ones included)
ScriptMoves == ~RunOver /\ pc' \in Positions /\ pc' # pc

\* a started script does not stand still: the interpreter executes the
\* statement it is at; neither success of a write nor a new start is forced
FairSpec == Spec /\ WF_pc(ScriptMoves)

\* the dates of pending_dates the loop has left behind
DoneOfPlan == SubSeq(plan, 1, Len(plan) - Len(pending))

\* while no step of the run has failed: the dates left behind and the dates to
\* come make up pending_dates in its order, the dates left behind are the last
\* dates completed, each once, the watermark is the last of them whenever a
\* step of the next date can run, and the loop ends only with none to come
NoFailureSoFar ==
    (pc # "main" /\ error = "none") =>
        /\ Len(pending) <= Len(plan)
        /\ plan = DoneOfPlan \o pending
        /\ \A i, j \in DOMAIN plan : i < j => plan[i] < plan[j]
        /\ Len(completed) >= Len(DoneOfPlan)
        /\ SubSeq(completed, Len(completed) - Len(DoneOfPlan) + 1, Len(completed)) = DoneOfPlan
        /\ DoneOfPlan # <<>> => LastProcessedDate(meta) = DoneOfPlan[Len(DoneOfPlan)]
        /\ pc \in {"process_date", "fact", "scd", "append", "update"} => pending # <<>>
        /\ pc = "finished" => (pending = <<>> /\ plan # <<>>
                               /\ LastProcessedDate(meta) = plan[Len(plan)])
        /\ pc = "exit0" => plan = <<>>
        /\ pc # "raised"

\* C19: a run in which no step fails ends, having processed every pending date
\* once in ascending order, each watermark advance made before the next date
\* starts, with the stored watermark at the greatest pending date.
\* ([]<>RunOver: from any statement the script is at, it reaches its end.)
C19_Progress == [](NoFailureSoFar) /\ []<>RunOver

C19_Witness ==
    /\ pc = "finished" /\ error = "none" /\ runs = 1
    /\ Len(plan) = 2
    /\ completed = plan
    /\ LastProcessedDate(meta) = plan[2]

\* ------------------------------------------------------------------------
\* C20
\* ------------------------------------------------------------------------
NoValidityColumns ==
    \A f \in DOMAIN customer_dir :
        "valid_from" \notin customer_dir[f].columns /\ "valid_to" \notin customer_dir[f].columns

\* C20: when no customer file carries valid_from/valid_to columns, every row of
\* the dimension table has valid_from before valid_to, in every state.
C20_IntervalsNonEmpty ==
    NoValidityColumns => \A r \in DOMAIN scd : r.valid_from < r.valid_to

====
